---- MODULE Spec2Model ----
(***************************************************************************)
(* State-machine model of metamask-inpage-provider (src/index.js).         *)
(*                                                                         *)
(* The module-level object _state is shared by every provider instance;    *)
(* selectedAddress, chainId, networkVersion, the publicConfigStore, the    *)
(* streams and the RPC engine are per instance.  Every handler the event   *)
(* loop runs (a timer, a stream callback, a store update, a notification,  *)
(* a public call) is one action.                                           *)
(***************************************************************************)
EXTENDS Integers, Sequences, FiniteSets, TLC

\* ------------------------------------------------------------------ bounds

\* number of public request calls the page makes over a run
MaxCalls == 2

\* number of frames the remote writes to one connection stream over a run
MaxFrames == 3

\* ------------------------------------------------------------ value domains

\* provider instances the page may construct
Providers == {"p1", "p2"}

\* JavaScript undefined / null
UNDEFINED == "undefined"
NULL == "null"

\* account lists the remote may push in a wallet_accountsChanged notification
AccountLists == {<<>>, <<"0xA">>, <<"0xB">>, <<"0xA", "0xB">>, <<"0xB", "0xA">>}

\* values a snapshot may carry in chainId / networkVersion
ChainIds == {UNDEFINED, "0x1"}
NetworkVersions == {UNDEFINED, "1"}

\* the two critical pumps of the constructor (their callbacks' streamName)
CriticalStreams == {"MetaMask", "MetaMask RpcProvider"}

\* the non-critical pump feeding the publicConfigStore
ConfigStream == "MetaMask PublicConfigStore"

AllStreams == CriticalStreams \cup {ConfigStream}

\* methods the page calls: the accounts query and one the provider treats as opaque
Methods == {"eth_accounts", "eth_getLogs"}

\* ids the page puts on its payloads; NoId stands for a payload without an id
NoId == 0
CallerIds == {NoId, 7}

\* the error code _sendAsync and createErrorMiddleware treat as unauthorized
Unauthorized == 4100

\* error codes the remote answers with: unauthorized, and user-rejected (4001)
ErrorCodes == {Unauthorized, 4001}

\* results the remote answers with
Results(method) ==
    CASE method = "eth_accounts" -> {<<>>, <<"0xA">>, <<"0xB">>}
      [] method = "wallet_requestPermissions" -> {<<"eth_accounts">>}
      [] OTHER -> {<<"log">>}

\* methods of unsolicited notifications on the RPC channel
NotificationMethods == {"wallet_accountsChanged", "eth_subscription", "other_notification"}

\* the logical channels of the multiplexed connection stream
Channels == {"publicConfig", "provider", "phishing"}

\* what a logical channel is wired to in the constructor
Consumers == {"publicConfigStore", "jsonRpcConnection", "ignored"}

\* ------------------------------------------------------------------ state

VARIABLES
    constructed,        \* [Providers -> BOOLEAN]: new MetamaskInpageProvider ran
    isConnected,        \* _state.isConnected: "undefined" | "true" | "false"
    accounts,           \* _state.accounts
    isUnlocked,         \* _state.isUnlocked
    sentSiteMetadata,   \* _state.sentSiteMetadata
    selectedAddress,    \* this.selectedAddress, per provider
    chainId,            \* this.chainId, per provider
    networkVersion,     \* this.networkVersion, per provider
    publicConfigStore,  \* per provider: the store object's own chainId/networkVersion
    connectTimer,       \* per provider: the setTimeout(() => emit('connect'))
    streams,            \* per provider: which pump is still running ("open" | "ended")
    calls,              \* per call slot: the request and its continuation
    idMap,              \* per provider: wire id -> call slot awaiting a response
    remote,             \* requests the remote has received and not answered
    idCounter,          \* next id handed out by the id-remap middleware
    emitted,            \* events emitted by the handler that ran last
    connectCount,       \* per provider: 'connect' emissions so far
    closeCount,         \* per provider: 'close' emissions so far
    inbound,            \* per provider: frames on the connection stream, not yet demultiplexed
    sentOn,             \* per provider and channel: the frames the remote wrote, in order
    consumed,           \* per provider and consumer: the frames it was handed, in order
    flow,               \* the _requestAccounts promise chain of the page's enable() call
    returned            \* what the page's last checked send() call returned or threw

vars == <<constructed, isConnected, accounts, isUnlocked, sentSiteMetadata,
          selectedAddress, chainId, networkVersion, publicConfigStore,
          connectTimer, streams, calls, idMap, remote, idCounter, emitted,
          connectCount, closeCount, inbound, sentOn, consumed, flow, returned>>

muxVars == <<inbound, sentOn, consumed>>
callVars == <<flow, returned>>
sharedVars == <<isConnected, accounts, isUnlocked, sentSiteMetadata>>
configVars == <<chainId, networkVersion, publicConfigStore>>
rpcVars == <<calls, idMap, remote, idCounter>>
lifeVars == <<connectTimer, streams, connectCount, closeCount>>

Slots == 1..MaxCalls

\* the three requests _requestAccounts may make, after the page's own slots
FlowSlots == (MaxCalls + 1)..(MaxCalls + 3)

AllSlots == Slots \cup FlowSlots

\* ------------------------------------------------------------ event surface

\* One emission: the emitter object it happened on (the provider itself, or
\* the provider's publicConfigStore), the event name and argument, and what a
\* listener reading the provider synchronously would see at that moment.
Event(target, p, name, arg, sel, accs) ==
    [target |-> target, prov |-> p, name |-> name, arg |-> arg,
     seenSelected |-> sel, seenAccounts |-> accs]

\* number of emissions of `name` on provider p's own event surface in the last step
CountEmitted(p, name) ==
    Cardinality({i \in 1..Len(emitted) :
        /\ emitted[i].prov = p
        /\ emitted[i].target = "provider"
        /\ emitted[i].name = name})

\* --------------------------------------------------------------- construction

NoCall ==
    [status |-> "idle", prov |-> "p1", id |-> 0, method |-> "-", wireId |-> 0,
     cut |-> FALSE, raw |-> [origin |-> 0, hasError |-> FALSE, code |-> 0, result |-> <<>>],
     cbCount |-> 0, err |-> 0, configAtSend |-> "open",
     res |-> [id |-> 0, hasResult |-> FALSE, result |-> <<>>, hasError |-> FALSE, code |-> 0,
              origin |-> 0]]

\* a promise: pending, resolved with a value (or with undefined), or rejected
\* with an error code
PromiseOf(state, defined, value, code) ==
    [state |-> state, defined |-> defined, value |-> value, code |-> code]

\* what a call of send() gave its caller: an exception ("throw"), a promise, or
\* the thenable response object of _sendSync with the value of its result
Returned(kind, value) == [kind |-> kind, value |-> value]

\* no enable() / send('eth_requestAccounts') call made yet
NoFlow ==
    [status |-> "idle", prov |-> "p1", promise |-> PromiseOf("pending", FALSE, <<>>, 0)]

\* module load (the _state literal) followed by the first `new MetamaskInpageProvider`
Init ==
    /\ constructed = [p \in Providers |-> p = "p1"]
    /\ isConnected = UNDEFINED
    /\ accounts = <<>>
    /\ isUnlocked = FALSE
    /\ sentSiteMetadata = FALSE
    /\ selectedAddress = [p \in Providers |-> NULL]
    /\ chainId = [p \in Providers |-> UNDEFINED]
    /\ networkVersion = [p \in Providers |-> UNDEFINED]
    /\ publicConfigStore = [p \in Providers |->
                               [chainId |-> UNDEFINED, networkVersion |-> UNDEFINED]]
    /\ connectTimer = [p \in Providers |-> IF p = "p1" THEN "scheduled" ELSE "none"]
    /\ streams = [p \in Providers |-> [s \in AllStreams |-> "open"]]
    /\ calls = [s \in AllSlots |-> NoCall]
    /\ idMap = [p \in Providers |-> [w \in {} |-> 0]]
    /\ remote = {}
    /\ idCounter = 1
    /\ emitted = <<>>
    /\ connectCount = [p \in Providers |-> 0]
    /\ closeCount = [p \in Providers |-> 0]
    /\ inbound = [p \in Providers |-> <<>>]
    /\ sentOn = [p \in Providers |-> [c \in Channels |-> <<>>]]
    /\ consumed = [p \in Providers |-> [c \in Consumers |-> <<>>]]
    /\ flow = NoFlow
    /\ returned = Returned("none", <<>>)

\* A further `new MetamaskInpageProvider(connectionStream)` in the same page.
\* The constructor sets the instance's public state and schedules its connect
\* announcement; it does not touch the module-level _state.
NewProvider(p) ==
    /\ ~constructed[p]
    /\ constructed' = [constructed EXCEPT ![p] = TRUE]
    /\ selectedAddress' = [selectedAddress EXCEPT ![p] = NULL]
    /\ chainId' = [chainId EXCEPT ![p] = UNDEFINED]
    /\ networkVersion' = [networkVersion EXCEPT ![p] = UNDEFINED]
    /\ connectTimer' = [connectTimer EXCEPT ![p] = "scheduled"]
    /\ emitted' = <<>>
    /\ UNCHANGED <<sharedVars, publicConfigStore, streams, rpcVars, connectCount, closeCount>>

\* ------------------------------------------------------------------ lifecycle

\* isConnected(): returns _state.isConnected
IsConnectedQuery == isConnected

\* _metamask.isUnlocked(): resolves to _state.isUnlocked
IsUnlockedQuery == isUnlocked

\* setInterval in place of setTimeout: the announcement is re-armed after firing
EmitConnectRearmed(p) ==
    /\ constructed[p]
    /\ connectTimer[p] = "scheduled"
    /\ connectCount[p] < 2
    /\ emitted' = <<Event("provider", p, "connect", UNDEFINED, selectedAddress[p], accounts)>>
    /\ isConnected' = "true"
    /\ connectCount' = [connectCount EXCEPT ![p] = @ + 1]
    /\ UNCHANGED <<constructed, accounts, isUnlocked, sentSiteMetadata, selectedAddress,
                   configVars, connectTimer, streams, rpcVars, closeCount>>

\* The deferred setTimeout(() => this.emit('connect')) fires; the constructor's
\* own 'connect' listener sets _state.isConnected = true.
EmitConnect(p) ==
    /\ constructed[p]
    /\ connectTimer[p] = "scheduled"
    /\ connectTimer' = [connectTimer EXCEPT ![p] = "fired"]
    /\ emitted' = <<Event("provider", p, "connect", UNDEFINED, selectedAddress[p], accounts)>>
    /\ isConnected' = "true"
    /\ connectCount' = [connectCount EXCEPT ![p] = @ + 1]
    /\ UNCHANGED <<constructed, accounts, isUnlocked, sentSiteMetadata, selectedAddress,
                   configVars, streams, rpcVars, closeCount>>

\* logStreamDisconnectWarning bound to the provider: 'error' is emitted only
\* when the page has registered a listener for it
ErrorEvents(p, hasErrorListener) ==
    IF hasErrorListener
    THEN <<Event("provider", p, "error", "lost connection", selectedAddress[p], accounts)>>
    ELSE <<>>

CloseReason == [code |-> 1011, reason |-> "MetaMask background communication error."]

\* the guard of the 'close' emission in _handleDisconnect
ShouldEmitClose == isConnected = "true"

\* requests of provider p that are on the wire when its channel goes down
CutCalls(p) ==
    [s \in AllSlots |->
        IF calls[s].status = "sent" /\ calls[s].prov = p
        THEN [calls[s] EXCEPT !.cut = TRUE]
        ELSE calls[s]]

\* _handleDisconnect(streamName, err): the callback of one of the two critical
\* pumps, which pump calls once when its pipeline errors or ends.
HandleDisconnect(p, streamName) ==
    /\ constructed[p]
    /\ streams[p][streamName] = "open"
    /\ streams' = [streams EXCEPT ![p][streamName] = "ended"]
    /\ \E hasErrorListener \in BOOLEAN :
         emitted' = ErrorEvents(p, hasErrorListener) \o
                    (IF ShouldEmitClose
                     THEN <<Event("provider", p, "close", CloseReason,
                                  selectedAddress[p], accounts)>>
                     ELSE <<>>)
    /\ closeCount' = [closeCount EXCEPT ![p] = IF ShouldEmitClose THEN @ + 1 ELSE @]
    /\ isConnected' = "false"
    /\ calls' = CutCalls(p)
    /\ UNCHANGED <<constructed, accounts, isUnlocked, sentSiteMetadata, selectedAddress,
                   configVars, connectTimer, idMap, remote, idCounter, connectCount>>

\* the publicConfig pump given the callback of the critical pumps
ConfigStreamDisconnectCritical(p) == HandleDisconnect(p, ConfigStream)

\* The publicConfig pump ends: only logStreamDisconnectWarning runs.
ConfigStreamDisconnect(p) ==
    /\ constructed[p]
    /\ streams[p][ConfigStream] = "open"
    /\ streams' = [streams EXCEPT ![p][ConfigStream] = "ended"]
    /\ \E hasErrorListener \in BOOLEAN : emitted' = ErrorEvents(p, hasErrorListener)
    /\ UNCHANGED <<constructed, sharedVars, selectedAddress, configVars, connectTimer,
                   rpcVars, connectCount, closeCount>>

\* messages of the RPC channel reach the provider while both critical pumps run
RpcChannelOpen(p) ==
    \A s \in CriticalStreams : streams[p][s] = "open"

\* snapshots reach the store while the base pump and the publicConfig pump run
ConfigChannelOpen(p) ==
    streams[p]["MetaMask"] = "open" /\ streams[p][ConfigStream] = "open"

\* ----------------------------------------------------------- accounts reconciler

\* fast-deep-equal on two arrays of strings: same length, pairwise ===
dequal(a, b) ==
    /\ Len(a) = Len(b)
    /\ \A i \in 1..Len(a) : a[i] = b[i]

\* accounts[0] of a JavaScript array
First(list) == IF Len(list) > 0 THEN list[1] ELSE UNDEFINED

\* `x || null` for a string or undefined
OrNull(x) == IF x = UNDEFINED \/ x = "" THEN NULL ELSE x

\* the value taken as it comes, without the Array.isArray check
NormalizeAccountsUnchecked(input) == input.list

\* the value _handleAccountsChanged works on after its Array.isArray check
NormalizeAccounts(input) == IF input.isArray THEN input.list ELSE <<>>

\* a comparison by length only
AccountsChangedByLength(cached, new) == Len(cached) /= Len(new)

\* the condition under which accountsChanged is emitted and the cache replaced
AccountsChanged(cached, new) == ~dequal(cached, new)

\* the cache kept per instance: the list is compared with what the instance
\* itself last reconciled, which its selectedAddress reflects
AccountsEventsPerInstance(p, accs) ==
    IF ~dequal(accounts, accs) \/ selectedAddress[p] /= OrNull(First(accs))
    THEN <<Event("provider", p, "accountsChanged", accs, selectedAddress[p], accounts)>>
    ELSE <<>>

\* the emit moved behind the two assignments: listeners see the new values
AccountsEventsAfterUpdate(p, accs) ==
    IF ~dequal(accounts, accs)
    THEN <<Event("provider", p, "accountsChanged", accs, OrNull(First(accs)), accs)>>
    ELSE <<>>

\* the events _handleAccountsChanged(accs) emits on provider p: the emit runs
\* before _state.accounts and this.selectedAddress are assigned
AccountsEvents(p, accs) ==
    IF AccountsChanged(accounts, accs)
    THEN <<Event("provider", p, "accountsChanged", accs, selectedAddress[p], accounts)>>
    ELSE <<>>

AccountsAfter(accs) == IF AccountsChanged(accounts, accs) THEN accs ELSE accounts

SelectedAfter(p, accs) ==
    IF selectedAddress[p] /= First(accs) THEN OrNull(First(accs)) ELSE selectedAddress[p]

\* inputs of the reconciler: arrays, and values that are not arrays: one
\* without indexed contents (undefined, null, {}) and one with (the array-like
\* object {0: '0xA', length: 1})
ReconcilerInputs ==
    {[isArray |-> TRUE, list |-> l] : l \in AccountLists}
        \cup {[isArray |-> FALSE, list |-> <<>>], [isArray |-> FALSE, list |-> <<"0xA">>]}

\* every payload emitted as 'data' re-emitted as 'notification'
DataEventsAllNotified(p, method) ==
    <<Event("provider", p, "data", method, selectedAddress[p], accounts),
      Event("provider", p, "notification", "params.result", selectedAddress[p], accounts)>>

\* this.emit('data', null, payload) and what the 'data' listener registered in
\* the constructor makes of it: a payload whose method is eth_subscription is
\* emitted again as 'notification' with payload.params.result
DataEvents(p, method) ==
    <<Event("provider", p, "data", method, selectedAddress[p], accounts)>> \o
    (IF method = "eth_subscription"
     THEN <<Event("provider", p, "notification", "params.result",
                  selectedAddress[p], accounts)>>
     ELSE <<>>)

\* jsonRpcConnection.events.on('notification', payload => ...): an unsolicited
\* message on the RPC channel.  wallet_accountsChanged goes to
\* _handleAccountsChanged(payload.result); anything else is emitted as 'data',
\* whose constructor-registered listener re-emits eth_subscription as
\* 'notification'.
Notification(p, method, input) ==
    /\ constructed[p]
    /\ RpcChannelOpen(p)
    /\ IF method = "wallet_accountsChanged"
       THEN LET accs == NormalizeAccounts(input) IN
            /\ emitted' = AccountsEvents(p, accs)
            /\ accounts' = AccountsAfter(accs)
            /\ selectedAddress' = [selectedAddress EXCEPT ![p] = SelectedAfter(p, accs)]
       ELSE /\ input = [isArray |-> TRUE, list |-> <<>>]
            /\ emitted' = DataEvents(p, method)
            /\ UNCHANGED <<accounts, selectedAddress>>
    /\ UNCHANGED <<constructed, isConnected, isUnlocked, sentSiteMetadata, configVars,
                   lifeVars, rpcVars>>

\* ------------------------------------------------------------------ config sync

ConfigFields == {"isUnlocked", "chainId", "networkVersion"}

\* the snapshots the remote may push: any subset of the fields present
Snapshots ==
    {s \in [has : SUBSET ConfigFields, isUnlocked : BOOLEAN,
            chainId : ChainIds, networkVersion : NetworkVersions] :
        /\ ("isUnlocked" \notin s.has => s.isUnlocked = FALSE)
        /\ ("chainId" \notin s.has => s.chainId = UNDEFINED)
        /\ ("networkVersion" \notin s.has => s.networkVersion = UNDEFINED)}

\* The subscriber is a `function`, not an arrow function, and is invoked by the
\* store's emitter: inside it `this` is the publicConfigStore, so this.chainId,
\* this.networkVersion and this.emit are the store's, not the provider's.
ConfigCallbackThis == "publicConfigStore"

\* the cached value the callback compares against: this.chainId / this.networkVersion
CachedConfig(p) ==
    IF ConfigCallbackThis = "provider"
    THEN [chainId |-> chainId[p], networkVersion |-> networkVersion[p]]
    ELSE publicConfigStore[p]

\* emits whenever the field is present
FieldChangedIfPresent(state, field, cached) == field \in state.has

\* `'f' in state && state.f !== cached`
FieldChanged(state, field, cached) ==
    field \in state.has /\ state[field] /= cached

\* an event for the unlock flag as well
ConfigEventsWithUnlock(p, state) ==
    LET cached == CachedConfig(p) IN
    (IF FieldChanged(state, "isUnlocked", isUnlocked)
     THEN <<Event(ConfigCallbackThis, p, "unlockChanged", UNDEFINED,
                  selectedAddress[p], accounts)>>
     ELSE <<>>) \o
    (IF FieldChanged(state, "chainId", cached.chainId)
     THEN <<Event(ConfigCallbackThis, p, "chainChanged", state.chainId,
                  selectedAddress[p], accounts)>>
     ELSE <<>>)

ConfigEvents(p, state) ==
    LET cached == CachedConfig(p) IN
    (IF FieldChanged(state, "chainId", cached.chainId)
     THEN <<Event(ConfigCallbackThis, p, "chainChanged", state.chainId,
                  selectedAddress[p], accounts),
            Event(ConfigCallbackThis, p, "chainIdChanged", state.chainId,
                  selectedAddress[p], accounts)>>
     ELSE <<>>) \o
    (IF FieldChanged(state, "networkVersion", cached.networkVersion)
     THEN <<Event(ConfigCallbackThis, p, "networkChanged", state.networkVersion,
                  selectedAddress[p], accounts)>>
     ELSE <<>>)

\* the snapshot's values taken over whole, absent fields as undefined
ConfigAfterOverwrite(p, state) ==
    [chainId |-> state.chainId, networkVersion |-> state.networkVersion]

ConfigAfter(p, state) ==
    LET cached == CachedConfig(p) IN
    [chainId |-> IF FieldChanged(state, "chainId", cached.chainId)
                 THEN state.chainId ELSE cached.chainId,
     networkVersion |-> IF FieldChanged(state, "networkVersion", cached.networkVersion)
                        THEN state.networkVersion ELSE cached.networkVersion]

\* publicConfigStore.subscribe(function (state) {...}): one snapshot arrives on
\* the publicConfig channel and the store notifies its subscriber.
ConfigUpdate(p, state) ==
    /\ constructed[p]
    /\ ConfigChannelOpen(p)
    /\ isUnlocked' = IF FieldChanged(state, "isUnlocked", isUnlocked)
                     THEN state.isUnlocked ELSE isUnlocked
    /\ emitted' = ConfigEvents(p, state)
    /\ IF ConfigCallbackThis = "provider"
       THEN /\ chainId' = [chainId EXCEPT ![p] = ConfigAfter(p, state).chainId]
            /\ networkVersion' =
                 [networkVersion EXCEPT ![p] = ConfigAfter(p, state).networkVersion]
            /\ UNCHANGED publicConfigStore
       ELSE /\ publicConfigStore' = [publicConfigStore EXCEPT ![p] = ConfigAfter(p, state)]
            /\ UNCHANGED <<chainId, networkVersion>>
    /\ UNCHANGED <<constructed, isConnected, accounts, sentSiteMetadata, selectedAddress,
                   lifeVars, rpcVars>>

\* ------------------------------------------------------------------ multiplexer

\* a value that carries none of the config fields
EmptySnapshot ==
    [has |-> {}, isUnlocked |-> FALSE, chainId |-> UNDEFINED, networkVersion |-> UNDEFINED]

\* a payload without a result
NoInput == [isArray |-> TRUE, list |-> <<>>]

\* One frame {name, data} of the connection stream.  The data is described by
\* what each consumer would read from it: the config fields it carries, its
\* method and its result.
Frame(name, state, method, input) ==
    [name |-> name, state |-> state, method |-> method, input |-> input]

\* the frames the remote writes: snapshots with one field on 'publicConfig',
\* notifications on 'provider', and a warning on 'phishing'
RemoteFrames ==
    {Frame("publicConfig", st, UNDEFINED, NoInput) :
        st \in {x \in Snapshots :
                  /\ Cardinality(x.has) = 1
                  /\ (x.isUnlocked \/ x.chainId /= UNDEFINED
                         \/ x.networkVersion /= UNDEFINED)}}
        \cup {Frame("provider", EmptySnapshot, "wallet_accountsChanged",
                    [isArray |-> TRUE, list |-> <<"0xA">>]),
              Frame("provider", EmptySnapshot, "eth_subscription", NoInput)}
        \cup {Frame("phishing", EmptySnapshot, UNDEFINED, NoInput)}

\* one consumer for every channel
ConsumerOfSingle(name) ==
    IF name = "phishing" THEN "ignored" ELSE "jsonRpcConnection"

\* no ignored channel
ConsumerOfUnignored(name) ==
    IF name = "publicConfig" THEN "publicConfigStore" ELSE "jsonRpcConnection"

\* The constructor's wiring of the multiplexer: createStream('publicConfig') is
\* pumped into the publicConfigStore, createStream('provider') into the JSON-RPC
\* connection, and 'phishing' is ignored.
ConsumerOf(name) ==
    CASE name = "publicConfig" -> "publicConfigStore"
      [] name = "provider" -> "jsonRpcConnection"
      [] OTHER -> "ignored"

\* frames the remote has written to provider p's connection stream so far
FramesWritten(p) ==
    Len(sentOn[p]["publicConfig"]) + Len(sentOn[p]["provider"]) + Len(sentOn[p]["phishing"])

\* The remote writes a frame to the connection stream of provider p.
RemoteWrite(p, f) ==
    /\ constructed[p]
    /\ streams[p]["MetaMask"] = "open"
    /\ FramesWritten(p) < MaxFrames
    /\ inbound' = [inbound EXCEPT ![p] = Append(@, f)]
    /\ sentOn' = [sentOn EXCEPT ![p][f.name] = Append(@, f)]
    /\ emitted' = <<>>
    /\ UNCHANGED <<constructed, sharedVars, selectedAddress, configVars, lifeVars, rpcVars,
                   consumed>>

\* pump(connectionStream, mux, ...): the multiplexer takes the next frame off
\* the connection stream and pushes its data into the substream of that name;
\* the substream's consumer handles it in the same turn.  A frame of an
\* ignored channel, or for a consumer whose pump has ended, is dropped.
MuxDeliver(p) ==
    /\ constructed[p]
    /\ streams[p]["MetaMask"] = "open"
    /\ inbound[p] /= <<>>
    /\ LET f == Head(inbound[p])
           c == ConsumerOf(f.name)
       IN /\ inbound' = [inbound EXCEPT ![p] = Tail(@)]
          /\ IF c = "publicConfigStore" /\ ConfigChannelOpen(p)
             THEN /\ consumed' = [consumed EXCEPT ![p][c] = Append(@, f)]
                  /\ ConfigUpdate(p, f.state)
             ELSE IF c = "jsonRpcConnection" /\ RpcChannelOpen(p)
             THEN /\ consumed' = [consumed EXCEPT ![p][c] = Append(@, f)]
                  /\ Notification(p, f.method, f.input)
             ELSE /\ emitted' = <<>>
                  /\ UNCHANGED <<constructed, sharedVars, selectedAddress, configVars,
                                 lifeVars, rpcVars, consumed>>
    /\ UNCHANGED sentOn

\* ------------------------------------------------------------------ requests

\* rpcPromiseCallback(resolve, reject)(error, response): how the promise
\* returned by send() settles; error 0 stands for a null error.
rpcPromiseCallback(error, response) ==
    IF error /= 0 \/ response.hasError
    THEN [state |-> "rejected", code |-> IF error /= 0 THEN error ELSE response.code,
          value |-> <<>>]
    ELSE [state |-> "resolved", code |-> 0, value |-> response.result]

\* the promise a caller holds for call slot s
Promise(s) ==
    IF calls[s].cbCount = 0
    THEN [state |-> "pending", code |-> 0, value |-> <<>>]
    ELSE rpcPromiseCallback(calls[s].err, calls[s].res)

\* an engine without the id-remap middleware: the caller's id goes on the wire
WireIdOfCaller(callerId, unique) == callerId

\* createIdRemapMiddleware, first in the engine's stack: the id put on the wire
\* is a fresh unique id, whatever id the caller supplied
WireId(callerId, unique) == unique

\* the request rpcEngine.handle starts for provider p: the payload with its wire
\* id, not yet answered
CallIssued(p, id, method) ==
    [NoCall EXCEPT !.status = "sent", !.prov = p, !.id = id, !.method = method,
                   !.wireId = WireId(id, idCounter),
                   !.configAtSend = streams[p][ConfigStream]]

\* the stream middleware registers the request of slot s under its wire id
IdMapWith(p, s, id) ==
    [idMap EXCEPT ![p] =
        [x \in DOMAIN @ \cup {WireId(id, idCounter)} |->
            IF x = WireId(id, idCounter) THEN s ELSE @[x]]]

\* the request of slot s is written to the RPC channel, if that channel is up
RemoteWith(p, s, id, method) ==
    IF RpcChannelOpen(p)
    THEN remote \cup {[prov |-> p, id |-> WireId(id, idCounter), method |-> method,
                       origin |-> s]}
    ELSE remote

\* _sendAsync(payload, userCallback) reached from send()/sendAsync(): the
\* one-time site metadata flag, then rpcEngine.handle: the request is given its
\* wire id, registered in the stream middleware's id map and written to the
\* RPC channel.
SendAsync(s, p, id, method) ==
    /\ constructed[p]
    /\ calls[s].status = "idle"
    /\ \A t \in Slots : t < s => calls[t].status /= "idle"
    /\ sentSiteMetadata' = TRUE
    /\ calls' = [calls EXCEPT ![s] = CallIssued(p, id, method)]
    /\ idMap' = IdMapWith(p, s, id)
    /\ remote' = RemoteWith(p, s, id, method)
    /\ idCounter' = idCounter + 1
    /\ emitted' = <<>>
    /\ UNCHANGED <<constructed, isConnected, accounts, isUnlocked, selectedAddress,
                   configVars, lifeVars>>

\* the answers the remote may give to a request
Answers(method) ==
    {[hasError |-> FALSE, code |-> 0, result |-> r] : r \in Results(method)}
        \cup {[hasError |-> TRUE, code |-> c, result |-> <<>>] : c \in ErrorCodes}

\* The remote answers one of the requests it holds, in any order, and the
\* response reaches the stream middleware (processResponse): the context is
\* looked up by the response's id, removed from the id map, the response is
\* merged into it and its completion is scheduled.
RemoteRespond(r, answer) ==
    /\ r \in remote
    /\ RpcChannelOpen(r.prov)
    /\ remote' = remote \ {r}
    /\ IF r.id \in DOMAIN idMap[r.prov]
       THEN LET t == idMap[r.prov][r.id] IN
            /\ idMap' = [idMap EXCEPT ![r.prov] =
                            [x \in DOMAIN @ \ {r.id} |-> @[x]]]
            /\ calls' = [calls EXCEPT ![t].status = "answered",
                                      ![t].raw = [origin |-> r.origin,
                                                  hasError |-> answer.hasError,
                                                  code |-> answer.code,
                                                  result |-> answer.result]]
       ELSE UNCHANGED <<idMap, calls>>
    /\ emitted' = <<>>
    /\ UNCHANGED <<constructed, sharedVars, selectedAddress, configVars, lifeVars, idCounter>>

\* A response arrives on the RPC channel whose id is registered for no request.
\* The stream middleware finds no context for it and fails the write with
\* "Unknown response id"; the JSON-RPC stream errors, its pump tears the
\* pipeline down and calls the callback it was given, _handleDisconnect.
UnknownResponse(p, id) ==
    /\ RpcChannelOpen(p)
    /\ id \notin DOMAIN idMap[p]
    /\ HandleDisconnect(p, "MetaMask RpcProvider")

\* the response object after the stream middleware merged the remote's answer
MergedResponse(c) ==
    [id |-> c.wireId, hasResult |-> ~c.raw.hasError, result |-> c.raw.result,
     hasError |-> c.raw.hasError, code |-> c.raw.code, origin |-> c.raw.origin]

\* the engine's end(): an error on the response is remembered as _originalError
OriginalError(res) == IF res.hasError THEN res.code ELSE 0

\* createErrorMiddleware's return handler: an unauthorized error on
\* eth_accounts is deleted and replaced by an empty result
ErrorMiddleware(method, res) ==
    IF res.hasError /\ method = "eth_accounts" /\ res.code = Unauthorized
    THEN [res EXCEPT !.hasError = FALSE, !.code = 0, !.hasResult = TRUE, !.result = <<>>]
    ELSE res

\* the id-remap middleware's return handler restores the caller's id
IdRemapReturn(res, originalId) == [res EXCEPT !.id = originalId]

\* rpcEngine.handle's completion: with an _originalError the result is deleted
\* and the callback is called with that error
EngineResponse(originalError, res) ==
    IF originalError /= 0
    THEN [res EXCEPT !.hasResult = FALSE, !.result = <<>>]
    ELSE res

\* the cb _sendAsync installs for eth_accounts: `if (err) { code === 4100 ... }`
LegacyAccountsResponse(err, res) ==
    IF err /= 0 /\ err = Unauthorized
    THEN [res EXCEPT !.hasError = FALSE, !.code = 0, !.hasResult = TRUE, !.result = <<>>]
    ELSE res

\* a response without a result keeps the cached list
ResultOrCached(res) == IF res.hasResult THEN res.result ELSE accounts

\* `res.result || []`
ResultOrEmpty(res) == IF res.hasResult THEN res.result ELSE <<>>

\* the error passed on to userCallback by the eth_accounts cb: userCallback(err, res)
CallbackError(err) == err

\* what the engine hands to the callback given to rpcEngine.handle
EngineOutcome(c) ==
    LET merged == MergedResponse(c)
        err == OriginalError(merged)
    IN [err |-> err,
        res |-> EngineResponse(err,
                    IdRemapReturn(ErrorMiddleware(c.method, merged), c.id))]

\* the (err, res) pair userCallback is called with for request c: for
\* eth_accounts the legacy wrapper of _sendAsync stands in between
CallbackOutcome(c) ==
    LET out == EngineOutcome(c) IN
    IF c.method = "eth_accounts"
    THEN [err |-> CallbackError(out.err), res |-> LegacyAccountsResponse(out.err, out.res)]
    ELSE out

\* request c after its callback ran
CallCompleted(c) ==
    [c EXCEPT !.status = "done", !.cbCount = @ + 1,
              !.err = CallbackOutcome(c).err, !.res = CallbackOutcome(c).res]

\* what the callback of request t does before it calls userCallback: for
\* eth_accounts, _handleAccountsChanged(res.result || [])
CompletionEffects(t) ==
    LET c == calls[t] IN
    IF c.method = "eth_accounts"
    THEN LET accs == NormalizeAccounts([isArray |-> TRUE,
                                        list |-> ResultOrEmpty(CallbackOutcome(c).res)])
         IN /\ emitted' = AccountsEvents(c.prov, accs)
            /\ accounts' = AccountsAfter(accs)
            /\ selectedAddress' =
                 [selectedAddress EXCEPT ![c.prov] = SelectedAfter(c.prov, accs)]
    ELSE /\ emitted' = <<>>
         /\ UNCHANGED <<accounts, selectedAddress>>

\* The scheduled completion of an answered request of send()/sendAsync() runs:
\* the return handlers, then the callback given to rpcEngine.handle.  For
\* eth_accounts that is the legacy wrapper, which reconciles the accounts and
\* then calls userCallback.
EndResponse(t) ==
    /\ t \in Slots
    /\ calls[t].status = "answered"
    /\ CompletionEffects(t)
    /\ calls' = [calls EXCEPT ![t] = CallCompleted(calls[t])]
    /\ UNCHANGED <<constructed, isConnected, isUnlocked, sentSiteMetadata, configVars,
                   lifeVars, idMap, remote, idCounter>>

\* ------------------------------------------------------------- request accounts

\* the call slot of the request the chain makes at each of its stages
FlowSlotOf(status) ==
    CASE status = "accounts" -> MaxCalls + 1
      [] status = "permission" -> MaxCalls + 2
      [] OTHER -> MaxCalls + 3

\* the method of the request the chain makes at each of its stages
FlowMethod(status) ==
    IF status = "permission" THEN "wallet_requestPermissions" ELSE "eth_accounts"

\* `!Array.isArray(result) || result.length === 0` on the first eth_accounts result
NeedsPermission(result) == Len(result) = 0

\* .catch(err => console.error(err)) at the end of the chain: the rejection is
\* logged and the chain's promise resolves with console.error's undefined
Caught(rejection) == PromiseOf("resolved", FALSE, <<>>, 0)

\* _requestAccounts(), called by enable() and by send('eth_requestAccounts'):
\* the first link of the chain calls _sendAsync({method: 'eth_accounts'}).
RequestAccounts(p) ==
    /\ constructed[p]
    /\ flow.status = "idle"
    /\ flow' = [flow EXCEPT !.status = "accounts", !.prov = p]
    /\ sentSiteMetadata' = TRUE
    /\ calls' = [calls EXCEPT ![FlowSlotOf("accounts")] =
                    CallIssued(p, NoId, FlowMethod("accounts"))]
    /\ idMap' = IdMapWith(p, FlowSlotOf("accounts"), NoId)
    /\ remote' = RemoteWith(p, FlowSlotOf("accounts"), NoId, FlowMethod("accounts"))
    /\ idCounter' = idCounter + 1
    /\ emitted' = <<>>
    /\ UNCHANGED <<constructed, isConnected, accounts, isUnlocked, selectedAddress,
                   configVars, lifeVars>>

\* The completion of the chain's current request runs, and with it, in the
\* same turn, the promise reactions: rpcPromiseCallback settles the link's
\* promise; a rejection goes to the final catch; a non-empty first result or
\* the re-queried result settles the chain; otherwise the next link calls
\* _sendAsync.
RequestAccountsStep ==
    /\ flow.status \in {"accounts", "permission", "requery"}
    /\ LET t == FlowSlotOf(flow.status)
           p == flow.prov
           done == CallCompleted(calls[t])
           link == rpcPromiseCallback(done.err, done.res)
           next == IF flow.status = "accounts" THEN "permission" ELSE "requery"
       IN /\ calls[t].status = "answered"
          /\ CompletionEffects(t)
          /\ IF link.state = "rejected"
             THEN /\ flow' = [flow EXCEPT !.status = "settled", !.promise = Caught(link)]
                  /\ calls' = [calls EXCEPT ![t] = done]
                  /\ UNCHANGED <<sentSiteMetadata, idMap, remote, idCounter>>
             ELSE IF \/ flow.status = "requery"
                     \/ flow.status = "accounts" /\ ~NeedsPermission(link.value)
             THEN /\ flow' = [flow EXCEPT !.status = "settled",
                                          !.promise = PromiseOf("resolved", TRUE,
                                                                link.value, 0)]
                  /\ calls' = [calls EXCEPT ![t] = done]
                  /\ UNCHANGED <<sentSiteMetadata, idMap, remote, idCounter>>
             ELSE /\ flow' = [flow EXCEPT !.status = next]
                  /\ sentSiteMetadata' = TRUE
                  /\ calls' = [calls EXCEPT ![t] = done,
                                            ![FlowSlotOf(next)] =
                                                CallIssued(p, NoId, FlowMethod(next))]
                  /\ idMap' = IdMapWith(p, FlowSlotOf(next), NoId)
                  /\ remote' = RemoteWith(p, FlowSlotOf(next), NoId, FlowMethod(next))
                  /\ idCounter' = idCounter + 1
    /\ UNCHANGED <<constructed, isConnected, isUnlocked, configVars, lifeVars>>

\* ------------------------------------------------------------------------ send

\* the methods send() answers through _sendSync when given a request object
SyncMethods == {"eth_accounts", "eth_coinbase", "eth_uninstallFilter", "net_version"}

\* method names the page passes to send()
SendMethods == Methods \cup SyncMethods \cup {"eth_requestAccounts"}

\* The first argument of send(methodOrPayload, params) and whether params were
\* given.  type is what the argument is: a string (the method name), a plain
\* object, an array, a number, or null; for an object or an array, method is
\* its own `method` property, which may be a string or not.
SendInputs ==
    {i \in [hasParams : BOOLEAN, type : {"string", "object", "array", "number", "null"},
            methodIsString : BOOLEAN, method : SendMethods \cup {UNDEFINED},
            id : CallerIds] :
        /\ i.methodIsString <=> i.method /= UNDEFINED
        /\ i.type = "string" => i.methodIsString
        /\ i.type \in {"number", "null"} => ~i.methodIsString
        /\ (i.id /= NoId) => (i.type = "object" /\ i.methodIsString /\ ~i.hasParams)}

\* `payload` as send() constructs it from its arguments
PayloadOf(i) ==
    IF i.hasParams
    THEN [i EXCEPT !.type = "object", !.methodIsString = (i.type = "string"),
                   !.method = IF i.type = "string" THEN i.method ELSE UNDEFINED]
    ELSE IF i.type = "string" THEN [i EXCEPT !.type = "object"]
    ELSE i

\* the request object itself is tested for a synchronous method name, before
\* the typecheck
TakesSyncBranch(i) ==
    /\ ~i.hasParams
    /\ i.type /= "string"
    /\ i.methodIsString
    /\ i.method \in SyncMethods

\* `Array.isArray(payload) || typeof payload !== 'object' ||
\*  typeof payload.method !== 'string'` (typeof null is 'object', but reading
\* null.method has thrown before)
FailsTypecheck(payload) ==
    payload.type \in {"array", "number", "null"} \/ ~payload.methodIsString

\* eth_accounts answered with [selectedAddress] whatever selectedAddress is
SyncResultUnguarded(p, method) ==
    CASE method \in {"eth_accounts", "eth_coinbase"} -> <<selectedAddress[p]>>
      [] method = "net_version" -> <<OrNull(networkVersion[p])>>
      [] OTHER -> <<"true">>

\* the result _sendSync puts in its response object, as a list of values
SyncResult(p, method) ==
    CASE method = "eth_accounts" ->
            IF selectedAddress[p] /= NULL THEN <<selectedAddress[p]>> ELSE <<>>
      [] method = "eth_coinbase" -> <<selectedAddress[p]>>
      [] method = "net_version" -> <<OrNull(networkVersion[p])>>
      [] OTHER -> <<"true">>

\* send(methodOrPayload, params) of provider p; s is the call slot a forwarded
\* request takes.
Send(p, i, s) ==
    /\ constructed[p]
    /\ LET payload == PayloadOf(i) IN
       IF TakesSyncBranch(i)
       THEN \* return this._sendSync(payload)
            /\ returned' = Returned("thenable", SyncResult(p, payload.method))
            /\ UNCHANGED flow
            /\ IF payload.method = "eth_uninstallFilter"
               THEN SendAsync(s, p, payload.id, payload.method)
               ELSE /\ emitted' = <<>>
                    /\ UNCHANGED <<constructed, sharedVars, selectedAddress, configVars,
                                   lifeVars, rpcVars>>
       ELSE IF FailsTypecheck(payload)
       THEN \* throw new Error(messages.errors.invalidParams(), payload)
            /\ returned' = Returned("throw", <<>>)
            /\ emitted' = <<>>
            /\ UNCHANGED <<constructed, sharedVars, selectedAddress, configVars,
                           lifeVars, rpcVars, flow>>
       ELSE IF payload.method = "eth_requestAccounts"
       THEN /\ returned' = Returned("promise", <<>>)
            /\ RequestAccounts(p)
       ELSE /\ returned' = Returned("promise", <<>>)
            /\ SendAsync(s, p, payload.id, payload.method)
            /\ UNCHANGED flow

\* --------------------------------------------------------------- specifications

Construct ==
    /\ \E p \in Providers : NewProvider(p)
    /\ UNCHANGED <<muxVars, callVars>>

Connect ==
    /\ \E p \in Providers : EmitConnect(p)
    /\ UNCHANGED <<muxVars, callVars>>

Disconnect ==
    /\ \E p \in Providers : \E s \in CriticalStreams : HandleDisconnect(p, s)
    /\ UNCHANGED <<muxVars, callVars>>

ConfigDisconnect ==
    /\ \E p \in Providers : ConfigStreamDisconnect(p)
    /\ UNCHANGED <<muxVars, callVars>>

Notify ==
    /\ \E p \in Providers : \E m \in NotificationMethods : \E i \in ReconcilerInputs :
         Notification(p, m, i)
    /\ UNCHANGED <<muxVars, callVars>>

Config ==
    /\ \E p \in Providers : \E state \in Snapshots : ConfigUpdate(p, state)
    /\ UNCHANGED <<muxVars, callVars>>

Request ==
    /\ \E s \in Slots : \E p \in Providers : \E id \in CallerIds : \E m \in Methods :
         SendAsync(s, p, id, m)
    /\ UNCHANGED <<muxVars, callVars>>

\* send(method, params) with a method name: the payload it builds has no id
SendByName ==
    /\ \E s \in Slots : \E p \in Providers : \E m \in Methods : SendAsync(s, p, NoId, m)
    /\ UNCHANGED <<muxVars, callVars>>

SendCall ==
    /\ \E p \in Providers : \E i \in SendInputs : \E s \in Slots : Send(p, i, s)
    /\ UNCHANGED muxVars

\* the remote announces that the wallet was unlocked to account A, or locked
AccountsNotice ==
    /\ \E p \in Providers : \E l \in {<<>>, <<"0xA">>} :
         Notification(p, "wallet_accountsChanged", [isArray |-> TRUE, list |-> l])
    /\ UNCHANGED <<muxVars, callVars>>

\* the first snapshot of the public config store tells the network version
NetworkNotice ==
    /\ \E p \in Providers :
         ConfigUpdate(p, [has |-> {"networkVersion"}, isUnlocked |-> FALSE,
                          chainId |-> UNDEFINED, networkVersion |-> "1"])
    /\ UNCHANGED <<muxVars, callVars>>

\* send(payload) given a request object with a method name, no id and no params
RequestObjects ==
    {i \in SendInputs :
        ~i.hasParams /\ i.type = "object" /\ i.methodIsString /\ i.id = NoId}

SendObject ==
    /\ \E p \in Providers : \E i \in RequestObjects : \E s \in Slots : Send(p, i, s)
    /\ UNCHANGED muxVars

\* enable()
Enable ==
    /\ \E p \in Providers : RequestAccounts(p)
    /\ UNCHANGED <<muxVars, returned>>

ChainStep ==
    /\ RequestAccountsStep
    /\ UNCHANGED <<muxVars, returned>>

RemoteSend ==
    /\ \E p \in Providers : \E f \in RemoteFrames : RemoteWrite(p, f)
    /\ UNCHANGED callVars

Deliver ==
    /\ \E p \in Providers : MuxDeliver(p)
    /\ UNCHANGED callVars

\* ids the remote may put on a response that answers no request
StrayIds == {7, 99}

Stray ==
    /\ \E p \in Providers : \E id \in StrayIds : UnknownResponse(p, id)
    /\ UNCHANGED <<muxVars, callVars>>

Respond ==
    /\ \E r \in remote : \E a \in Answers(r.method) : RemoteRespond(r, a)
    /\ UNCHANGED <<muxVars, callVars>>

Complete ==
    /\ \E t \in Slots : EndResponse(t)
    /\ UNCHANGED <<muxVars, callVars>>

Next ==
    \/ Construct
    \/ Connect
    \/ Disconnect
    \/ ConfigDisconnect
    \/ Notify
    \/ Config
    \/ Request
    \/ Respond
    \/ Complete
    \/ RemoteSend
    \/ Deliver
    \/ Enable
    \/ ChainStep
    \/ SendCall
    \/ Stray

Spec == Init /\ [][Next]_vars

\* The lifecycle and the reconciler across provider instances.
NextLife ==
    \/ Construct
    \/ Connect
    \/ Disconnect
    \/ Notify

SpecLife == Init /\ [][NextLife]_vars

\* The timers of the event loop fire: a scheduled connect announcement is
\* eventually delivered.
FairSpecLife ==
    SpecLife /\ \A p \in Providers : WF_vars(EmitConnect(p) /\ UNCHANGED <<muxVars, callVars>>)

\* The config sync channel across provider instances.
NextConfig ==
    \/ Construct
    \/ Config
    \/ ConfigDisconnect

SpecConfig == Init /\ [][NextConfig]_vars

\* Requests of the first provider, their responses and completions, and the
\* failure of its critical channels.
NextRpc ==
    \/ Request
    \/ Respond
    \/ Complete
    \/ Disconnect

SpecRpc == Init /\ [][NextRpc]_vars

\* Requests of the first provider around the failure of its publicConfig
\* channel, the critical channels staying up.
NextRpcConfig ==
    \/ Connect
    \/ ConfigDisconnect
    \/ SendByName
    \/ Respond
    \/ Complete

SpecRpcConfig == Init /\ [][NextRpcConfig]_vars

\* The request-accounts chain of the first provider next to requests the page
\* sends by method name.
NextAccounts ==
    \/ Enable
    \/ ChainStep
    \/ SendByName
    \/ Respond
    \/ Complete

SpecAccounts == Init /\ [][NextAccounts]_vars

\* Calls of send() with any argument, on the first provider.
NextSend == SendCall

SpecSend == Init /\ [][NextSend]_vars

\* Requests of the first provider and responses of the remote, those that
\* answer no request included.
NextStray ==
    \/ Connect
    \/ SendByName
    \/ Respond
    \/ Complete
    \/ Stray

SpecStray == Init /\ [][NextStray]_vars

\* Calls of send on a provider whose cached account and network version the
\* remote has or has not yet told.
NextSendCached ==
    \/ SendObject
    \/ AccountsNotice
    \/ NetworkNotice

SpecSendCached == Init /\ [][NextSendCached]_vars

\* The remote's frames on the first provider's connection stream and their
\* demultiplexing.
NextMux ==
    \/ RemoteSend
    \/ Deliver

SpecMux == Init /\ [][NextMux]_vars

\* The remote's frames arriving while the first provider is connecting and has
\* requests on the wire.
NextMuxRpc ==
    \/ RemoteSend
    \/ Deliver
    \/ Connect
    \/ SendByName

SpecMuxRpc == Init /\ [][NextMuxRpc]_vars

\* ---------------------------------------------------------------------- claims

\* index set of the events the last handler emitted on provider p's own surface
ProviderEvents(p) ==
    {i \in 1..Len(emitted) : emitted[i].prov = p /\ emitted[i].target = "provider"}

\* the names of every event the last handler emitted for provider p, on
\* whatever emitter object, in emission order
EmittedFor(p) ==
    LET idx == {i \in 1..Len(emitted) : emitted[i].prov = p}
    IN [i \in 1..Len(emitted) |-> IF i \in idx THEN emitted[i].name ELSE "-"]

\* C1: every request that was on the wire when a critical channel of its
\* provider reported an error or end-of-stream is eventually rejected with a
\* disconnect error; stated on the runs that have come to rest: when no
\* response, completion or channel event can occur any more, no such request is
\* still pending.
C1_DisconnectRejectsInFlight ==
    (~ENABLED (Respond \/ Complete \/ Disconnect)) =>
        \A s \in Slots : calls[s].cut => Promise(s).state = "rejected"

\* C2: concurrently in-flight requests carry pairwise distinct ids on the wire,
\* whatever ids their callers supplied, and each caller's continuation is
\* invoked exactly once, with the response the remote gave to that caller's
\* own request, carrying the caller's original id.
C2_ResponsesRoutedById ==
    /\ \A s, t \in Slots :
         (s /= t /\ calls[s].status = "sent" /\ calls[t].status = "sent")
            => calls[s].wireId /= calls[t].wireId
    /\ \A s \in Slots :
         /\ calls[s].status \in {"idle", "sent", "answered"} => calls[s].cbCount = 0
         /\ calls[s].status = "answered" => calls[s].raw.origin = s
         /\ calls[s].status = "done" =>
              /\ calls[s].cbCount = 1
              /\ calls[s].res.origin = s
              /\ calls[s].res.id = calls[s].id

\* two requests with the same caller id were in flight together and the later
\* one has been answered and completed first
C2_Witness ==
    /\ calls[1].status = "sent"
    /\ calls[2].status = "done"
    /\ calls[1].id = 7 /\ calls[2].id = 7
    /\ calls[1].prov = calls[2].prov
    /\ calls[2].res.id = 7

\* C3: a call of the accounts reconciler emits accountsChanged if and only if
\* the new list differs from the cached list (in length or at some position),
\* the event carries the new list, and the cache ends equal to the new list;
\* no step changes the cache without exactly one such emission.
C3_AccountsChangedIffDifferent ==
    [][
        /\ \A p \in Providers : \A i \in ReconcilerInputs :
             Notification(p, "wallet_accountsChanged", i) =>
                LET new == IF i.isArray THEN i.list ELSE <<>> IN
                /\ (new /= accounts) <=> (CountEmitted(p, "accountsChanged")' = 1)
                /\ (new = accounts) => (emitted' = <<>>)
                /\ accounts' = new
        /\ \A p \in Providers : \A k \in ProviderEvents(p)' :
             emitted'[k].name = "accountsChanged" =>
                /\ emitted'[k].arg = accounts'
                /\ emitted'[k].arg /= accounts
                /\ CountEmitted(p, "accountsChanged")' = 1
        /\ (accounts' /= accounts) =>
             \E p \in Providers : CountEmitted(p, "accountsChanged")' = 1
    ]_vars

\* the reconciler was given [B, A] while [A, B] was cached, and emitted
C3_Witness ==
    /\ accounts = <<"0xB", "0xA">>
    /\ \E k \in 1..Len(emitted) :
         /\ emitted[k].name = "accountsChanged"
         /\ emitted[k].arg = <<"0xB", "0xA">>
         /\ emitted[k].seenAccounts = <<"0xA", "0xB">>

\* C4: in every state a caller can observe, and in every state an event
\* listener observes while an event is being emitted, a provider's
\* selectedAddress is null or the first element of the cached accounts list.
C4_SelectedIsNullOrFirstAccount ==
    /\ \A p \in Providers :
         constructed[p] =>
            (selectedAddress[p] = NULL \/ selectedAddress[p] = First(accounts))
    /\ \A k \in 1..Len(emitted) :
         emitted[k].target = "provider" =>
            \/ emitted[k].seenSelected = NULL
            \/ emitted[k].seenSelected = First(emitted[k].seenAccounts)

\* C5: a snapshot emits chainChanged (networkChanged) exactly when its chainId
\* (networkVersion) is present and differs from the cached value, the event
\* carries the snapshot's value, and the cached value then equals it: a repeat
\* of the same snapshot, or a first snapshot equal to the initial cache, emits
\* nothing.
C5_ConfigEventsOnlyOnChange ==
    [][
        \A p \in Providers : \A state \in Snapshots :
            ConfigUpdate(p, state) =>
                LET cached == CachedConfig(p)
                    chain == "chainId" \in state.has /\ state.chainId /= cached.chainId
                    net == "networkVersion" \in state.has
                             /\ state.networkVersion /= cached.networkVersion
                    names == EmittedFor(p)'
                IN /\ names = (IF chain THEN <<"chainChanged", "chainIdChanged">> ELSE <<>>)
                                \o (IF net THEN <<"networkChanged">> ELSE <<>>)
                   /\ \A k \in 1..Len(emitted') :
                        emitted'[k].arg =
                            IF emitted'[k].name = "networkChanged"
                            THEN state.networkVersion ELSE state.chainId
                   /\ "chainId" \in state.has => CachedConfig(p)'.chainId = state.chainId
                   /\ "networkVersion" \in state.has =>
                        CachedConfig(p)'.networkVersion = state.networkVersion
    ]_vars

\* a snapshot changed both cached values and both events were emitted
C5_Witness ==
    /\ EmittedFor("p1") = <<"chainChanged", "chainIdChanged", "networkChanged">>
    /\ CachedConfig("p1").chainId = "0x1"
    /\ CachedConfig("p1").networkVersion = "1"

\* C6: after a snapshot with a changed chainId (networkVersion) the provider's
\* public chainId (networkVersion) equals the snapshot's value, and
\* chainChanged then chainIdChanged (networkChanged) carrying it were emitted on
\* the provider's own event surface.
C6_ConfigReachesProvider ==
    [][
        \A p \in Providers : \A state \in Snapshots :
            ConfigUpdate(p, state) =>
                LET cached == CachedConfig(p)
                    chain == "chainId" \in state.has /\ state.chainId /= cached.chainId
                    net == "networkVersion" \in state.has
                             /\ state.networkVersion /= cached.networkVersion
                IN /\ chain =>
                        /\ chainId'[p] = state.chainId
                        /\ \E j, k \in ProviderEvents(p)' :
                             /\ j < k
                             /\ emitted'[j].name = "chainChanged"
                             /\ emitted'[j].arg = state.chainId
                             /\ emitted'[k].name = "chainIdChanged"
                             /\ emitted'[k].arg = state.chainId
                   /\ net =>
                        /\ networkVersion'[p] = state.networkVersion
                        /\ \E k \in ProviderEvents(p)' :
                             /\ emitted'[k].name = "networkChanged"
                             /\ emitted'[k].arg = state.networkVersion
    ]_vars

\* C7: an eth_accounts request answered with the unauthorized error resolves
\* to the empty list, and its completion emits accountsChanged([]) exactly once
\* if the cached accounts were non-empty and not at all if they were empty.
C7_UnauthorizedResolvesEmpty ==
    [][
        \A t \in Slots :
            (/\ EndResponse(t)
             /\ calls[t].method = "eth_accounts"
             /\ calls[t].raw.hasError
             /\ calls[t].raw.code = Unauthorized) =>
                /\ Promise(t)'.state = "resolved"
                /\ Promise(t)'.value = <<>>
                /\ CountEmitted(calls[t].prov, "accountsChanged")' =
                       IF accounts /= <<>> THEN 1 ELSE 0
                /\ accounts' = <<>>
    ]_vars

\* C8: each provider instance emits connect exactly once over its lifetime:
\* never a second time, and once constructed it eventually has emitted it.
C8_ConnectExactlyOnce ==
    \A p \in Providers :
        /\ [](connectCount[p] <= 1)
        /\ [](constructed[p] => <>(connectCount[p] = 1))

\* both instances have announced connect, one of them after its transport failed
C8_Witness ==
    /\ connectCount["p1"] = 1
    /\ connectCount["p2"] = 1
    /\ streams["p1"]["MetaMask"] = "ended"
    /\ streams["p1"]["MetaMask RpcProvider"] = "ended"

\* C9: a provider emits close at most once, however its two critical channels
\* fail, and every close carries a reason code and message.
C9_CloseAtMostOnce ==
    /\ \A p \in Providers : closeCount[p] <= 1
    /\ \A k \in 1..Len(emitted) :
         emitted[k].name = "close" =>
            emitted[k].arg.code = 1011 /\ emitted[k].arg.reason /= ""

\* C10: once a critical channel of a provider has reported an error or
\* end-of-stream, at any point after construction, the connection-status query
\* does not report connected.
C10_DisconnectedStaysDisconnected ==
    \A p \in Providers :
        (\E s \in CriticalStreams : streams[p][s] = "ended")
            => IsConnectedQuery /= "true"

\* C11: the failure of the publicConfig channel alone leaves the connected flag
\* and the close count as they are, emits no close and touches no request; a
\* request issued after it is written to the RPC channel, the remote's answer
\* to it can be delivered, and an answered request can complete.
C11_ConfigFailureLeavesRpc ==
    /\ [][
          /\ \A p \in Providers :
               (streams[p][ConfigStream] = "open" /\ streams'[p][ConfigStream] = "ended") =>
                  /\ isConnected' = isConnected
                  /\ closeCount' = closeCount
                  /\ CountEmitted(p, "close")' = 0
                  /\ calls' = calls /\ remote' = remote /\ idMap' = idMap
          /\ \A s \in Slots :
               (/\ calls[s].status = "idle" /\ calls'[s].status = "sent"
                /\ calls'[s].configAtSend = "ended"
                /\ RpcChannelOpen(calls'[s].prov)) =>
                  \E r \in remote' : /\ r \notin remote
                                      /\ r.prov = calls'[s].prov
                                      /\ r.origin = s
                                      /\ r.method = calls'[s].method
        ]_vars
    /\ [](\A p \in Providers :
            (streams[p][ConfigStream] = "ended" /\ RpcChannelOpen(p)) =>
               /\ \A r \in remote : r.prov = p =>
                    ENABLED (\E a \in Answers(r.method) : RemoteRespond(r, a))
               /\ \A s \in Slots :
                    (calls[s].prov = p /\ calls[s].status = "answered")
                        => ENABLED EndResponse(s))

\* a request issued after the publicConfig channel failed has been answered and
\* has resolved, the provider still reporting connected and never having closed
C11_Witness ==
    /\ streams["p1"][ConfigStream] = "ended"
    /\ isConnected = "true"
    /\ closeCount["p1"] = 0
    /\ \E s \in Slots :
         /\ calls[s].configAtSend = "ended"
         /\ calls[s].status = "done"
         /\ Promise(s).state = "resolved"

\* C12: however the remote interleaves its frames on the 'publicConfig' and
\* 'provider' channels, the consumer of each channel has been handed only
\* frames of its own channel, and what it has been handed followed by what is
\* still on the connection stream for it is what was written on its channel, in
\* the order written.
C12_ChannelIsolation ==
    \A p \in Providers : \A ch \in {"publicConfig", "provider"} :
        LET got == consumed[p][ConsumerOf(ch)] IN
        /\ \A i \in 1..Len(got) : got[i].name = ch
        /\ got \o SelectSeq(inbound[p], LAMBDA f : f.name = ch) = sentOn[p][ch]

\* the remote wrote a snapshot, a notification and another snapshot; the first
\* snapshot has been handed to the store, the other two frames are in flight
C12_Witness ==
    /\ Len(consumed["p1"]["publicConfigStore"]) = 1
    /\ Len(inbound["p1"]) = 2
    /\ inbound["p1"][1].name = "provider"
    /\ inbound["p1"][2].name = "publicConfig"
    /\ Len(sentOn["p1"]["publicConfig"]) = 2

\* the chain's request of the given stage
FlowCall(status) == calls[FlowSlotOf(status)]

\* the remote answered request c with a result
AnsweredWithResult(c) == c.status = "done" /\ ~c.raw.hasError

\* the remote's answer to the eth_accounts request c is the empty list: an empty
\* result, or the unauthorized error that is normalized to one
AnsweredEmpty(c) ==
    /\ c.status = "done"
    /\ \/ ~c.raw.hasError /\ c.raw.result = <<>>
       \/ c.raw.hasError /\ c.raw.code = Unauthorized

\* C13: the request-accounts operation first issues eth_accounts; a non-empty
\* result resolves the operation with it and no permission request is issued;
\* an empty result (the normalized unauthorized answer included) is followed by
\* one wallet_requestPermissions and, only once that succeeded, by one further
\* eth_accounts whose result is the operation's result; at most one of the
\* three requests is in flight at a time and none starts before its
\* predecessor completed.
C13_RequestAccountsSequence ==
    LET first == FlowCall("accounts")
        perm == FlowCall("permission")
        again == FlowCall("requery")
    IN /\ flow.status /= "idle" =>
            first.status /= "idle" /\ first.method = "eth_accounts"
       /\ Cardinality({t \in FlowSlots : calls[t].status \in {"sent", "answered"}}) <= 1
       /\ perm.status /= "idle" =>
            /\ perm.method = "wallet_requestPermissions"
            /\ first.status = "done"
       /\ again.status /= "idle" =>
            /\ again.method = "eth_accounts"
            /\ AnsweredWithResult(perm)
       /\ (AnsweredWithResult(first) /\ first.raw.result /= <<>>) =>
            /\ flow.promise = PromiseOf("resolved", TRUE, first.raw.result, 0)
            /\ perm.status = "idle"
       /\ AnsweredEmpty(first) => perm.status /= "idle"
       /\ (perm.status = "done" /\ perm.raw.hasError) => again.status = "idle"
       /\ AnsweredWithResult(perm) => again.status /= "idle"
       /\ AnsweredWithResult(again) =>
            flow.promise = PromiseOf("resolved", TRUE, again.raw.result, 0)

\* the remote answered request c with an error other than the unauthorized
\* answer to eth_accounts
AnsweredWithError(c) ==
    /\ c.status = "done"
    /\ c.raw.hasError
    /\ ~(c.method = "eth_accounts" /\ c.raw.code = Unauthorized)

\* C14: when the remote answered a request of send() with an error, other than
\* the normalized unauthorized eth_accounts answer, the promise send() returned
\* is rejected with that error; when it so answered a request made on behalf of
\* enable() / send('eth_requestAccounts'), the promise of that operation is
\* rejected with that error.
C14_RemoteErrorsReject ==
    /\ \A s \in Slots :
         AnsweredWithError(calls[s]) =>
            Promise(s).state = "rejected" /\ Promise(s).code = calls[s].raw.code
    /\ \A t \in FlowSlots :
         AnsweredWithError(calls[t]) =>
            flow.promise.state = "rejected" /\ flow.promise.code = calls[t].raw.code

\* malformed arguments of send(): the payload is an array or not an
\* object, or its method is not a string
Malformed(i) ==
    IF i.hasParams THEN i.type /= "string"
    ELSE i.type \in {"array", "number", "null"} \/ ~i.methodIsString

\* C15: send() called with malformed input throws, and that call hands nothing
\* to the RPC engine or the transport and leaves the cached state, the
\* site-metadata flag and every request as they were.
C15_MalformedSendFailsSynchronously ==
    [][
        \A p \in Providers : \A i \in SendInputs : \A s \in Slots :
            (Malformed(i) /\ Send(p, i, s)) =>
                /\ returned'.kind = "throw"
                /\ UNCHANGED <<sharedVars, selectedAddress, configVars, rpcVars, flow>>
    ]_vars

\* C16: construction emits no connect: a provider whose announcement is still
\* scheduled has emitted none, every connect is emitted by the timer of an
\* already constructed provider, and while a provider has not emitted connect
\* its connection-status query does not return true.
C16_ConnectDeferred ==
    \A p \in Providers :
        /\ connectTimer[p] /= "fired" => connectCount[p] = 0
        /\ connectCount[p] > 0 => constructed[p]
        /\ CountEmitted(p, "connect") > 0 => connectTimer[p] = "fired"
        /\ (constructed[p] /\ connectCount[p] = 0) => IsConnectedQuery /= "true"

\* names of the events a change of the given config field emits
FieldEvents(field) ==
    CASE field = "chainId" -> {"chainChanged", "chainIdChanged"}
      [] field = "networkVersion" -> {"networkChanged"}
      [] OTHER -> {}

\* C17: a snapshot leaves the cached value of every field it does not carry as
\* it was and emits none of that field's events; a field whose value it does
\* not change emits none of its events either, whatever happens to the other
\* fields; and the snapshot touches neither the accounts, nor any
\* selectedAddress, nor the connected flag, nor another provider's cache.
C17_SnapshotTouchesOnlyPresentFields ==
    [][
        \A p \in Providers : \A state \in Snapshots :
            ConfigUpdate(p, state) =>
                LET cached == CachedConfig(p)
                    names == {emitted'[k].name : k \in 1..Len(emitted')}
                IN /\ \A f \in {"chainId", "networkVersion"} :
                        /\ f \notin state.has =>
                              /\ CachedConfig(p)'[f] = cached[f]
                              /\ names \cap FieldEvents(f) = {}
                        /\ (f \in state.has /\ state[f] = cached[f]) =>
                              /\ CachedConfig(p)'[f] = cached[f]
                              /\ names \cap FieldEvents(f) = {}
                   /\ "isUnlocked" \notin state.has => isUnlocked' = isUnlocked
                   /\ accounts' = accounts
                   /\ selectedAddress' = selectedAddress
                   /\ isConnected' = isConnected
                   /\ \A q \in Providers \ {p} : CachedConfig(q)' = CachedConfig(q)
    ]_vars

\* a snapshot carrying only a new chainId arrived while a networkVersion was
\* cached: the chain events were emitted and the networkVersion is still cached
C17_Witness ==
    /\ EmittedFor("p1") = <<"chainChanged", "chainIdChanged">>
    /\ CachedConfig("p1").chainId = "0x1"
    /\ CachedConfig("p1").networkVersion = "1"

\* C18: a snapshot that changes isUnlocked is followed by the accounts-unlocked
\* accessor returning the snapshot's value, and emits nothing for it: the events
\* of the step are those of its chainId and networkVersion changes only, so a
\* snapshot that changes isUnlocked alone emits nothing.
C18_UnlockUpdatedSilently ==
    [][
        \A p \in Providers : \A state \in Snapshots :
            (/\ ConfigUpdate(p, state)
             /\ "isUnlocked" \in state.has
             /\ state.isUnlocked /= isUnlocked) =>
                LET cached == CachedConfig(p)
                    chain == "chainId" \in state.has /\ state.chainId /= cached.chainId
                    net == "networkVersion" \in state.has
                             /\ state.networkVersion /= cached.networkVersion
                IN /\ IsUnlockedQuery' = state.isUnlocked
                   /\ \A k \in 1..Len(emitted') :
                        emitted'[k].name \in
                            (IF chain THEN FieldEvents("chainId") ELSE {})
                                \cup (IF net THEN FieldEvents("networkVersion") ELSE {})
                   /\ (~chain /\ ~net) => emitted' = <<>>
    ]_vars

\* a snapshot has set the unlock flag, nothing was emitted and nothing else is
\* cached
C18_Witness ==
    /\ IsUnlockedQuery = TRUE
    /\ emitted = <<>>
    /\ CachedConfig("p1").chainId = UNDEFINED
    /\ CachedConfig("p1").networkVersion = UNDEFINED
    /\ streams["p1"][ConfigStream] = "open"

\* C19: the reconciler called with a value that is not a list does what it
\* does with the empty list: it emits accountsChanged([]) exactly when the
\* cache was non-empty, leaves the cache empty and selectedAddress null; and
\* the call is always carried through.
C19_NonListIsEmptyList ==
    /\ [][
          \A p \in Providers : \A i \in ReconcilerInputs :
              (~i.isArray /\ Notification(p, "wallet_accountsChanged", i)) =>
                  /\ Notification(p, "wallet_accountsChanged",
                                  [isArray |-> TRUE, list |-> <<>>])
                  /\ CountEmitted(p, "accountsChanged")' =
                         IF accounts /= <<>> THEN 1 ELSE 0
                  /\ \A k \in 1..Len(emitted') :
                       emitted'[k].name = "accountsChanged" /\ emitted'[k].arg = <<>>
                  /\ accounts' = <<>>
                  /\ selectedAddress'[p] = NULL
        ]_vars
    /\ [](\A p \in Providers : \A i \in ReconcilerInputs :
            (constructed[p] /\ RpcChannelOpen(p) /\ ~i.isArray) =>
                ENABLED Notification(p, "wallet_accountsChanged", i))

\* the reconciler was handed a non-list while accounts were cached: it emitted
\* accountsChanged([]) and cleared the cache and selectedAddress
C19_Witness ==
    /\ accounts = <<>>
    /\ selectedAddress["p1"] = NULL
    /\ \E k \in 1..Len(emitted) :
         /\ emitted[k].prov = "p1"
         /\ emitted[k].name = "accountsChanged"
         /\ emitted[k].arg = <<>>
         /\ emitted[k].seenAccounts = <<"0xA", "0xB">>
         /\ emitted[k].seenSelected = "0xA"

\* C20: the step in which the multiplexer takes a frame of the 'phishing'
\* channel off the connection stream emits no event, hands the frame to no
\* consumer, and leaves every cached value, the connected flag and every
\* request and its promise as they were.
C20_PhishingDiscarded ==
    [][
        \A p \in Providers :
            (/\ inbound[p] /= <<>>
             /\ Head(inbound[p]).name = "phishing"
             /\ MuxDeliver(p)) =>
                /\ emitted' = <<>>
                /\ consumed' = consumed
                /\ UNCHANGED <<accounts, selectedAddress, chainId, networkVersion,
                               publicConfigStore, isUnlocked, isConnected>>
                /\ UNCHANGED <<rpcVars, flow>>
                /\ \A s \in AllSlots : Promise(s)' = Promise(s)
    ]_vars

\* a phishing frame and an accounts notification have been taken off the
\* stream while a request is on the wire: the last delivery emitted nothing
C20_Witness ==
    /\ Len(sentOn["p1"]["phishing"]) = 1
    /\ inbound["p1"] = <<>>
    /\ accounts = <<"0xA">>
    /\ isConnected = "true"
    /\ calls[1].status = "sent"
    /\ emitted = <<>>

\* C21: a response whose id matches no pending request settles no promise,
\* emits no close and leaves the connection status as it was.
C21_StrayResponseLeavesLifecycle ==
    [][
        \A p \in Providers : \A id \in StrayIds :
            UnknownResponse(p, id) =>
                /\ \A s \in AllSlots : Promise(s)' = Promise(s)
                /\ CountEmitted(p, "close")' = 0
                /\ closeCount' = closeCount
                /\ IsConnectedQuery' = IsConnectedQuery
    ]_vars

\* C22: a listener of accountsChanged that reads selectedAddress or the cached
\* accounts while the event is being emitted reads the values from before the
\* reconciler's call, and the cached list it reads is not the event's list;
\* the new values are in place only when the call has returned.
C22_AccountsChangedSeesOldValues ==
    [][
        \A p \in Providers : \A k \in ProviderEvents(p)' :
            emitted'[k].name = "accountsChanged" =>
                /\ emitted'[k].seenSelected = selectedAddress[p]
                /\ emitted'[k].seenAccounts = accounts
                /\ emitted'[k].seenAccounts /= emitted'[k].arg
                /\ accounts' = emitted'[k].arg
                /\ selectedAddress'[p] = OrNull(First(emitted'[k].arg))
    ]_vars

\* accountsChanged([B]) was emitted while the listener still read
\* selectedAddress A and the cached list [A]
C22_Witness ==
    /\ accounts = <<"0xB">>
    /\ selectedAddress["p1"] = "0xB"
    /\ \E k \in 1..Len(emitted) :
         /\ emitted[k].prov = "p1"
         /\ emitted[k].name = "accountsChanged"
         /\ emitted[k].arg = <<"0xB">>
         /\ emitted[k].seenSelected = "0xA"
         /\ emitted[k].seenAccounts = <<"0xA">>

\* C23: the completion of every eth_accounts request reconciles the accounts
\* with the response's result, and with the empty list when the response
\* carries an error instead: accountsChanged is emitted once with that list if
\* the cache differed from it, the cache becomes that list and selectedAddress
\* its first element or null.
C23_AccountsResponseReconciled ==
    [][
        \A t \in AllSlots :
            (/\ calls[t].status = "answered"
             /\ calls'[t].status = "done"
             /\ calls[t].method = "eth_accounts") =>
                LET p == calls[t].prov
                    list == IF calls[t].raw.hasError THEN <<>> ELSE calls[t].raw.result
                IN /\ CountEmitted(p, "accountsChanged")' =
                          IF accounts /= list THEN 1 ELSE 0
                   /\ \A k \in ProviderEvents(p)' :
                        emitted'[k].name = "accountsChanged" => emitted'[k].arg = list
                   /\ accounts' = list
                   /\ selectedAddress'[p] = OrNull(First(list))
    ]_vars

\* an eth_accounts request was answered with a user-rejected error while [A]
\* was cached: its completion emitted accountsChanged([]) and cleared the
\* cache and selectedAddress
C23_Witness ==
    \E t \in Slots :
        /\ calls[t].status = "done"
        /\ calls[t].method = "eth_accounts"
        /\ calls[t].raw.hasError
        /\ calls[t].raw.code = 4001
        /\ accounts = <<>>
        /\ selectedAddress[calls[t].prov] = NULL
        /\ \E k \in 1..Len(emitted) :
             /\ emitted[k].prov = calls[t].prov
             /\ emitted[k].name = "accountsChanged"
             /\ emitted[k].arg = <<>>
             /\ emitted[k].seenAccounts = <<"0xA">>
             /\ emitted[k].seenSelected = "0xA"

\* C24: a wallet_accountsChanged notification goes to the accounts reconciler
\* and emits neither 'data' nor 'notification'; every other notification is
\* emitted as 'data' carrying its payload and leaves the accounts alone; and
\* 'notification' is emitted only behind the 'data' event of an
\* eth_subscription payload, carrying params.result.
C24_NotificationsRoutedByMethod ==
    [][
        /\ \A p \in Providers : \A m \in NotificationMethods : \A i \in ReconcilerInputs :
             Notification(p, m, i) =>
                IF m = "wallet_accountsChanged"
                THEN /\ CountEmitted(p, "data")' = 0
                     /\ CountEmitted(p, "notification")' = 0
                     /\ accounts' = NormalizeAccounts(i)
                     /\ selectedAddress'[p] = OrNull(First(NormalizeAccounts(i)))
                ELSE /\ EmittedFor(p)' =
                          (IF m = "eth_subscription"
                           THEN <<"data", "notification">>
                           ELSE <<"data">>)
                     /\ emitted'[1].arg = m
                     /\ UNCHANGED <<accounts, selectedAddress>>
        /\ \A k \in 1..Len(emitted') :
             emitted'[k].name = "notification" =>
                /\ k > 1
                /\ emitted'[k - 1].name = "data"
                /\ emitted'[k - 1].arg = "eth_subscription"
                /\ emitted'[k - 1].prov = emitted'[k].prov
                /\ emitted'[k].arg = "params.result"
    ]_vars

\* an eth_subscription notification arrived while [A, B] was cached: 'data'
\* and then 'notification' were emitted on the provider
C24_Witness ==
    /\ accounts = <<"0xA", "0xB">>
    /\ EmittedFor("p2") = <<"data", "notification">>
    /\ emitted[1].arg = "eth_subscription"
    /\ emitted[2].arg = "params.result"

\* C25: the accounts cache and the connected flag are one for all instances,
\* selectedAddress is each instance's own.  An instance that reconciles the
\* list the cache already holds, put there by whichever instance, emits
\* nothing, takes the list's first element as its selectedAddress and leaves
\* the other instances' selectedAddress alone; a connect on one instance makes
\* every other instance report connected, and a disconnect on one makes every
\* other report disconnected.
C25_SharedCacheAcrossInstances ==
    [][
        /\ \A p \in Providers : \A i \in ReconcilerInputs :
             (/\ NormalizeAccounts(i) = accounts
              /\ Notification(p, "wallet_accountsChanged", i)) =>
                /\ emitted' = <<>>
                /\ accounts' = accounts
                /\ selectedAddress'[p] = OrNull(First(accounts))
                /\ \A q \in Providers \ {p} : selectedAddress'[q] = selectedAddress[q]
        /\ \A p \in Providers :
             connectCount'[p] /= connectCount[p] =>
                /\ IsConnectedQuery' = "true"
                /\ \A q \in Providers \ {p} : connectCount'[q] = connectCount[q]
        /\ \A p \in Providers :
             streams'[p] /= streams[p] =>
                /\ IsConnectedQuery' = "false"
                /\ \A q \in Providers \ {p} : streams'[q] = streams[q]
    ]_vars

\* one instance reconciled the list the other had put in the cache:
\* nothing was emitted, and its selectedAddress followed; and it reports
\* connected on the strength of the first instance's connect alone
C25_Witness ==
    /\ accounts = <<"0xA", "0xB">>
    /\ selectedAddress["p1"] = "0xA"
    /\ selectedAddress["p2"] = "0xA"
    /\ emitted = <<>>
    /\ connectCount["p1"] = 1
    /\ connectCount["p2"] = 0
    /\ IsConnectedQuery = "true"
    /\ \A p \in Providers : \A n \in DOMAIN streams[p] : streams[p][n] = "open"

\* C26: send given a request object and no params whose method is
\* eth_accounts, eth_coinbase or net_version returns at once the answer from
\* the provider's cached state ([selectedAddress] or [], selectedAddress or
\* null, networkVersion or null), issues no request and leaves the accounts,
\* selectedAddress, chainId, networkVersion and the connected flag as they
\* were; of the synchronous methods only eth_uninstallFilter issues a request.
C26_SyncMethodsAnsweredFromCache ==
    [][
        \A p \in Providers : \A i \in RequestObjects : \A s \in Slots :
            (i.method \in SyncMethods /\ Send(p, i, s)) =>
                /\ returned'.kind = "thenable"
                /\ UNCHANGED <<accounts, selectedAddress, chainId, networkVersion,
                               isConnected, flow>>
                /\ IF i.method = "eth_uninstallFilter"
                   THEN /\ returned'.value = <<"true">>
                        /\ calls[s].status = "idle"
                        /\ calls'[s].status = "sent"
                        /\ calls'[s].method = "eth_uninstallFilter"
                        /\ \E r \in remote' \ remote : r.method = "eth_uninstallFilter"
                   ELSE /\ UNCHANGED rpcVars
                        /\ emitted' = <<>>
                        /\ returned'.value =
                             CASE i.method = "eth_accounts" ->
                                    IF selectedAddress[p] = NULL
                                    THEN <<>>
                                    ELSE <<selectedAddress[p]>>
                               [] i.method = "eth_coinbase" ->
                                    IF selectedAddress[p] = NULL
                                    THEN <<NULL>>
                                    ELSE <<selectedAddress[p]>>
                               [] OTHER ->
                                    IF networkVersion[p] = UNDEFINED
                                    THEN <<NULL>>
                                    ELSE <<networkVersion[p]>>
    ]_vars

\* eth_accounts was asked for through a request object while account A was
\* selected and a snapshot had been received: the call returned [A], and no
\* request has ever been issued
C26_Witness ==
    /\ returned = Returned("thenable", <<"0xA">>)
    /\ selectedAddress["p1"] = "0xA"
    /\ publicConfigStore["p1"].networkVersion = "1"
    /\ \A s \in AllSlots : calls[s].status = "idle"
    /\ remote = {}

====
